---- MODULE Spec2Model ----
(***************************************************************************)
(* Model of the parsing context of walt-compiler                           *)
(* (packages/walt-compiler/src/parser/context.js).                         *)
(*                                                                         *)
(* A Context holds the current token and a token stream.  Sub-parsers call *)
(* next/eat/expect to move the cursor, startNode/endNode/makeNode to build *)
(* AST nodes, and the diagnostic constructors to build syntax errors.      *)
(* Every method is one action; its arguments are drawn from small sets,    *)
(* and `res` records the call that was just made: its arguments, the       *)
(* cursor before the call, and how it terminated.                          *)
(*                                                                         *)
(* JavaScript values: objects are functions from key strings to values     *)
(* (records), arrays are sequences, null/undefined objects are the records *)
(* Null / the position Undefined, and an undefined string is Undef.        *)
(***************************************************************************)
EXTENDS Integers, Sequences, FiniteSets, TLC

VARIABLES tokens, pos, token, nodes, res

vars == <<tokens, pos, token, nodes, res>>

(* ------------------------------ bounds ------------------------------- *)

\* longest generated token stream
MaxLen == 2
\* calls of stream.next() allowed after the stream is exhausted
MaxOverrun == 1

(* --------------------------- JavaScript values ------------------------ *)

\* null / undefined where an object is expected
Null == [null |-> TRUE]
\* undefined where a string is expected (String(undefined) is "undefined")
Undef == "undefined"
\* undefined where a source position is expected ({}.start)
Undefined == [undefined |-> TRUE]
\* the empty object {} and the empty array []
EmptyObject == <<>>
\* an array of strings that may be compared with null
Array(items) == [array |-> items]

\* { ...a, ...b }
Spread(a, b) ==
  [k \in (DOMAIN a) \cup (DOMAIN b) |-> IF k \in DOMAIN b THEN b[k] ELSE a[k]]

\* const { [key]: omit, ...rest } = obj
Omit(obj, key) == [k \in (DOMAIN obj) \ {key} |-> obj[k]]

\* Array.prototype.join(",") as used by String(array)
RECURSIVE Join(_)
Join(arr) ==
  IF Len(arr) = 0 THEN ""
  ELSE IF Len(arr) = 1 THEN arr[1]
  ELSE arr[1] \o "," \o Join(Tail(arr))

\* String(v) of an array of strings
String(v) == Join(v.array)
\* String(t) of a string, or of undefined ("undefined")
StringOfType(t) == t

\* Array.prototype.includes
Includes(arr, v) == \E i \in 1..Len(arr.array) : arr.array[i] = v

\* a slice that takes the character at the end index too
SliceInclusive(s, from, to) ==
  LET hi == IF to + 1 > Len(s) THEN Len(s) ELSE to + 1
  IN  IF from >= hi THEN "" ELSE SubSeq(s, from + 1, hi)

\* String.prototype.slice(from, to) for non-negative indices
Slice(s, from, to) ==
  LET hi == IF to > Len(s) THEN Len(s) ELSE to
  IN  IF from >= hi THEN "" ELSE SubSeq(s, from + 1, hi)

(* ------------------------------ inputs -------------------------------- *)

\* (value, type) pairs of the tokens a generated stream is made of
TokenKinds == { <<"let", "Keyword">>, <<"x", "Identifier">>, <<"+", "Operator">> }

RECURSIVE LineOf(_)
\* the source line of a generated stream: the values separated by blanks
LineOf(kinds) ==
  IF Len(kinds) = 0 THEN ""
  ELSE IF Len(kinds) = 1 THEN kinds[1][1]
  ELSE kinds[1][1] \o " " \o LineOf(Tail(kinds))

RECURSIVE ColOf(_, _)
\* the column at which the i-th value of a generated stream starts
ColOf(kinds, i) ==
  IF i = 1 THEN 0 ELSE ColOf(kinds, i - 1) + Len(kinds[i - 1][1]) + 1

\* a token: value, type and start position (line, col, sourceLine)
MkToken(v, t, c, l) ==
  [value |-> v, type |-> t, start |-> [line |-> 1, col |-> c, sourceLine |-> l]]

MkStream(kinds) ==
  [i \in 1..Len(kinds) |->
     MkToken(kinds[i][1], kinds[i][2], ColOf(kinds, i), LineOf(kinds))]

RECURSIVE SeqsUpTo(_, _)
SeqsUpTo(S, n) ==
  IF n = 0 THEN { <<>> }
  ELSE LET shorter == SeqsUpTo(S, n - 1)
       IN  shorter \cup { Append(s, x) : s \in { q \in shorter : Len(q) = n - 1 }, x \in S }

\* the stream of the source line `let x = 5;`
ScenarioLine == "let x = 5;"
ScenarioStream ==
  << MkToken("let", "Keyword", 0, ScenarioLine),
     MkToken("x", "Identifier", 4, ScenarioLine),
     MkToken("=", "Punctuator", 6, ScenarioLine),
     MkToken("5", "Constant", 8, ScenarioLine),
     MkToken(";", "Punctuator", 9, ScenarioLine) >>

\* the token streams a context is constructed on
Streams == { MkStream(k) : k \in SeqsUpTo(TokenKinds, MaxLen) }

\* value sets handed to eat / expect: null, [], ["let"], ["let", "x"]
ValueArgs == { Null, Array(<<>>), Array(<<"let">>), Array(<<"let", "x">>) }
\* type tags handed to eat / expect: omitted, or a tag
TypeArgs == { Undef, "Keyword", "Identifier" }
\* node types handed to endNode / makeNode
NodeTypes == { "Identifier", "Block" }
\* the variables a caller keeps nodes in: A for the node it builds, B for
\* a second node (another sub-parser's, or an earlier result)
Slots == { "A", "B" }

(* --------------------------- token stream ----------------------------- *)

\* TokenStream.next(): the token the stream produces at position p + 1,
\* undefined once the input is exhausted
StreamNext(p) == IF p < Len(tokens) THEN tokens[p + 1] ELSE Null

\* TokenStream.last(): the most recently produced token
StreamLast(p) ==
  IF p = 0 \/ Len(tokens) = 0 THEN Null
  ELSE IF p <= Len(tokens) THEN tokens[p] ELSE tokens[Len(tokens)]

(* ----------------------------- diagnostics ---------------------------- *)

\* how a call ends: it returns a value or throws one
Return(v) == [outcome |-> "return", value |-> v]
Throw(v) == [outcome |-> "throw", value |-> v]

\* the TypeError of reading a property of null / undefined
TypeError == [name |-> "TypeError"]

\* obj[key] of an object that may lack the key
Get(obj, key, undef) == IF key \in DOMAIN obj THEN obj[key] ELSE undef

\* Context.filename: declared, never assigned by the context
filename == Undef

\* generateErrorString(msg, error, marker, filename, func): the formatted
\* diagnostic, kept as its parts
generateErrorString(msg, error, marker, file, func) ==
  [msg |-> msg, error |-> error, marker |-> marker, filename |-> file, func |-> func]

\* error || ""
OrEmpty(error) == IF error = Undef \/ error = "" THEN "" ELSE error

\* Context.syntaxError(msg, error) with current token tk
SyntaxErrorOf(tk, msg, error) ==
  LET functionId == "unknown"
  IN  Return([name |-> "SyntaxError",
              message |-> generateErrorString(
                            msg, OrEmpty(error), tk,
                            IF filename = Undef THEN "unknown" ELSE filename,
                            functionId)])

\* unexpectedValue with the detail of unexpected
UnexpectedValueAsToken(tk, value) ==
  SyntaxErrorOf(tk, "Expected: " \o String(value), "Unexpected token")

\* Context.unexpectedValue(value)
UnexpectedValueOf(tk, value) ==
  SyntaxErrorOf(tk, "Expected: " \o String(value), "Unexpected value")

\* Context.unexpected(token): reads this.token.type
UnexpectedOf(tk, type) ==
  IF tk = Null THEN Throw(TypeError)
  ELSE SyntaxErrorOf(tk, "Expected: " \o StringOfType(type),
                     "Unexpected token " \o tk.type)

\* Context.unknown({ value })
UnknownOf(tk, arg) == SyntaxErrorOf(tk, "Unknown token", arg.value)

\* Context.unsupported(): reads this.token.value
UnsupportedOf(tk) ==
  IF tk = Null THEN Throw(TypeError)
  ELSE SyntaxErrorOf(tk, "Language feature not supported", tk.value)

(* ------------------------------- matcher ------------------------------ *)

\* eat with the `return false` after the value test missing
EatsFallThrough(tk, value, type) ==
  /\ tk # Null
  /\ \/ value # Null /\ Includes(value, tk.value)
     \/ tk.type = type

\* eat(null, type) comparing the type the wrong way round
EatsOtherType(tk, value, type) ==
  IF tk = Null THEN FALSE
  ELSE IF value # Null THEN Includes(value, tk.value)
  ELSE tk.type # type

\* eat testing the type whenever one is given
EatsTypeFirst(tk, value, type) ==
  IF tk = Null THEN FALSE
  ELSE IF type # Undef THEN tk.type = type
  ELSE value # Null /\ Includes(value, tk.value)

\* the test of Context.eat: does the current token tk match (value, type)?
Eats(tk, value, type) ==
  IF tk = Null THEN FALSE
  ELSE IF value # Null THEN Includes(value, tk.value)
  ELSE tk.type = type

\* expect returning this.token after eat instead of the saved token
ExpectReturnsCurrent(tk, after, value, type) ==
  IF ~Eats(tk, value, type)
  THEN LET e == IF value # Null THEN UnexpectedValueOf(tk, value)
                ELSE UnexpectedOf(tk, type)
       IN  Throw(e.value)
  ELSE Return(after)

\* what Context.expect does around eat, tk being the token saved before and
\* after the current token once eat has run: return tk or throw
ExpectOf(tk, after, value, type) ==
  IF ~Eats(tk, value, type)
  THEN LET e == IF value # Null THEN UnexpectedValueOf(tk, value)
                ELSE UnexpectedOf(tk, type)
       IN  Throw(e.value)
  ELSE Return(tk)

(* ----------------------------- node builder --------------------------- *)

\* startNode's default argument: this.token || {}
DefaultSeed(tk) == IF tk # Null THEN tk ELSE EmptyObject

\* Context.startNode(token)
StartNodeOf(seed) ==
  [Type |-> "",
   value |-> Get(seed, "value", Undef),
   range |-> << Get(seed, "start", Undefined) >>,
   meta |-> EmptyObject,
   params |-> EmptyObject,
   type |-> Null]

\* endNode taking the end position from the token after the current one
EndTokenPeek(tk, p) ==
  IF StreamNext(p) # Null THEN StreamNext(p) ELSE EmptyObject

\* endNode without the fallback to stream.last()
EndTokenNoLast(tk, p) == IF tk # Null THEN tk ELSE EmptyObject

\* the token endNode takes the end position from:
\* this.token || this.stream.last() || {}
EndToken(tk, p) ==
  IF tk # Null THEN tk
  ELSE IF StreamLast(p) # Null THEN StreamLast(p)
  ELSE EmptyObject

\* a toString closure that captures the range of the open node
ToStringOfBase(range) == [closure |-> "toString", range |-> << range[1] >>]

\* the toString closure of endNode, which captures range
ToStringClosure(range) == [closure |-> "toString", range |-> range]

\* calling the toString closure of a node: the slice of the start's source
\* line, or the TypeError of reading a property of an undefined position
CallToString(f) ==
  LET start == f.range[1]
      end == f.range[Len(f.range)]
  IN  IF start = Undefined \/ end = Undefined THEN Throw(TypeError)
      ELSE Return(Slice(start.sourceLine, start.col, end.col))

\* endNode keeping base.range instead of the concatenation
EndNodeNoConcat(tk, p, base, Type) ==
  LET range == base.range
      seed == Omit(base, "toString")
  IN  Spread(Spread([toString |-> ToStringClosure(range)], seed),
             [Type |-> Type, range |-> range])

\* endNode putting the end position in front of base.range
EndNodeReversed(tk, p, base, Type) ==
  LET range == << Get(EndToken(tk, p), "start", Undefined) >> \o base.range
      seed == Omit(base, "toString")
  IN  Spread(Spread([toString |-> ToStringClosure(range)], seed),
             [Type |-> Type, range |-> range])

\* Context.endNode(base, Type) with current token tk and stream position p
EndNodeOf(tk, p, base, Type) ==
  LET range == Append(base.range, Get(EndToken(tk, p), "start", Undefined))
      seed == Omit(base, "toString")
  IN  Spread(Spread([toString |-> ToStringClosure(range)], seed),
             [Type |-> Type, range |-> range])

\* makeNode spreading the defaults over the partial node
MakeNodeDefaultsWin(tk, p, node, syntax) ==
  EndNodeOf(tk, p, Spread(node, StartNodeOf(DefaultSeed(tk))), syntax)

\* Context.makeNode(node, syntax)
MakeNodeOf(tk, p, node, syntax) ==
  EndNodeOf(tk, p, Spread(StartNodeOf(DefaultSeed(tk)), node), syntax)

(* --------------------------- more inputs ------------------------------ *)

\* startNode called without an argument
Omitted == [omitted |-> TRUE]
\* the arguments of startNode: none, {} or a token the stream has produced
SeedArgs ==
  { Omitted, EmptyObject } \cup { tokens[i] : i \in { j \in 1..Len(tokens) : j <= pos } }

\* a position a caller may put into a partial node
PartialPos == [line |-> 1, col |-> 0, sourceLine |-> "partial"]
\* the partial nodes handed to makeNode
Partials ==
  { EmptyObject,
    [value |-> "y", Type |-> "Custom"],
    [range |-> << PartialPos >>],
    [toString |-> [closure |-> "custom"]],
    [name |-> "foo"] }

\* longest range of a node the caller keeps
MaxRange == 2

(* ------------------------------- state -------------------------------- *)

\* new Context({ stream, token, lines }): the token is the stream's first
\* token (token: stream.next()) or none
Init ==
  /\ tokens \in Streams
  /\ pos \in {0, 1}
  /\ token = IF pos = 0 THEN Null ELSE StreamNext(0)
  /\ nodes = [s \in Slots |-> Null]
  /\ res = [op |-> "new"]

\* the cursor before a call
Pre == [preToken |-> token, prePos |-> pos]

(* ------------------------------- actions ------------------------------ *)

\* next taking two tokens from the stream
nextTwice ==
  /\ pos + 1 < Len(tokens) + MaxOverrun
  /\ token' = StreamNext(pos + 1)
  /\ pos' = pos + 2
  /\ res' = Spread(Pre, [op |-> "next", outcome |-> "return"])
  /\ UNCHANGED <<tokens, nodes>>

\* Context.next()
next ==
  /\ pos < Len(tokens) + MaxOverrun
  /\ token' = StreamNext(pos)
  /\ pos' = pos + 1
  /\ res' = Spread(Pre, [op |-> "next", outcome |-> "return"])
  /\ UNCHANGED <<tokens, nodes>>

\* eat calling next() before it tests the token
eatAdvancing(value, type) ==
  /\ pos < Len(tokens) + MaxOverrun
  /\ token' = StreamNext(pos)
  /\ pos' = pos + 1
  /\ res' = Spread(Pre, [op |-> "eat", value |-> value, type |-> type,
                         outcome |-> "return", ret |-> Eats(token, value, type)])
  /\ UNCHANGED <<tokens, nodes>>

\* Context.eat(value, type)
eat(value, type) ==
  /\ IF Eats(token, value, type)
     THEN /\ token' = StreamNext(pos)
          /\ pos' = pos + 1
     ELSE UNCHANGED <<token, pos>>
  /\ res' = Spread(Pre, [op |-> "eat", value |-> value, type |-> type,
                         outcome |-> "return", ret |-> Eats(token, value, type)])
  /\ UNCHANGED <<tokens, nodes>>

\* expect calling next() before eat
expectAdvancing(value, type) ==
  LET r == ExpectOf(token, token', value, type)
  IN  /\ pos < Len(tokens) + MaxOverrun
      /\ token' = StreamNext(pos)
      /\ pos' = pos + 1
      /\ res' = Spread(Pre, [op |-> "expect", value |-> value, type |-> type,
                             outcome |-> r.outcome, ret |-> r.value])
      /\ UNCHANGED <<tokens, nodes>>

\* Context.expect(value, type)
expect(value, type) ==
  LET r == ExpectOf(token, token', value, type)
  IN  /\ IF Eats(token, value, type)
         THEN /\ token' = StreamNext(pos)
              /\ pos' = pos + 1
         ELSE UNCHANGED <<token, pos>>
      /\ res' = Spread(Pre, [op |-> "expect", value |-> value, type |-> type,
                             outcome |-> r.outcome, ret |-> r.value])
      /\ UNCHANGED <<tokens, nodes>>

\* a diagnostic constructor that consumes the token it reports
DiagnosticConsuming(name, arg, r) ==
  /\ pos < Len(tokens) + MaxOverrun
  /\ res' = Spread(Pre, [op |-> name, arg |-> arg,
                         outcome |-> r.outcome, ret |-> r.value])
  /\ token' = StreamNext(pos)
  /\ pos' = pos + 1
  /\ UNCHANGED <<tokens, nodes>>

\* a diagnostic constructor was called and ended as r
Diagnostic(name, arg, r) ==
  /\ res' = Spread(Pre, [op |-> name, arg |-> arg,
                         outcome |-> r.outcome, ret |-> r.value])
  /\ UNCHANGED <<tokens, pos, token, nodes>>

\* Context.syntaxError(msg, error)
syntaxError(msg, error) ==
  Diagnostic("syntaxError", <<msg, error>>, SyntaxErrorOf(token, msg, error))

\* Context.unexpectedValue(value)
unexpectedValue(value) ==
  Diagnostic("unexpectedValue", value, UnexpectedValueOf(token, value))

\* Context.unexpected(token)
unexpected(type) ==
  Diagnostic("unexpected", type, UnexpectedOf(token, type))

\* Context.unknown({ value })
unknown(arg) ==
  Diagnostic("unknown", arg, UnknownOf(token, arg))

\* Context.unsupported()
unsupported ==
  Diagnostic("unsupported", EmptyObject, UnsupportedOf(token))

\* node = Context.startNode(seed), kept by the caller in slot s
startNode(s, seed) ==
  LET node == StartNodeOf(IF seed = Omitted THEN DefaultSeed(token) ELSE seed)
  IN  /\ nodes' = [nodes EXCEPT ![s] = node]
      /\ res' = Spread(Pre, [op |-> "startNode", seed |-> seed,
                             outcome |-> "return", ret |-> node])
      /\ UNCHANGED <<tokens, pos, token>>

\* endNode pushing the end position onto base.range and setting base.Type
endNodeInPlace(s, Type, d) ==
  /\ nodes[s] # Null
  /\ d \in Slots => Len(nodes[s].range) < MaxRange
  /\ LET base == nodes[s]
         node == EndNodeOf(token, pos, base, Type)
         fresh == res.op = "startNode" /\ res.ret = base
     IN  /\ nodes' = IF d \in Slots
                     THEN [[nodes EXCEPT ![s] = node] EXCEPT ![d] = node]
                     ELSE [nodes EXCEPT ![s] = node]
         /\ res' = Spread(Pre, [op |-> "endNode", base |-> base, Type |-> Type,
                                fresh |-> fresh, from |-> s, to |-> d,
                                seed |-> IF fresh THEN res.seed ELSE Null,
                                outcome |-> "return", ret |-> node])
  /\ UNCHANGED <<tokens, pos, token>>

\* Context.endNode(nodes[s], Type); the caller keeps the result in slot d,
\* or drops it (d = "none")
endNode(s, Type, d) ==
  /\ nodes[s] # Null
  /\ d \in Slots => Len(nodes[s].range) < MaxRange
  /\ LET base == nodes[s]
         node == EndNodeOf(token, pos, base, Type)
         fresh == res.op = "startNode" /\ res.ret = base
     IN  /\ nodes' = IF d \in Slots THEN [nodes EXCEPT ![d] = node] ELSE nodes
         /\ res' = Spread(Pre, [op |-> "endNode", base |-> base, Type |-> Type,
                                fresh |-> fresh, from |-> s, to |-> d,
                                seed |-> IF fresh THEN res.seed ELSE Null,
                                outcome |-> "return", ret |-> node])
  /\ UNCHANGED <<tokens, pos, token>>

\* node.toString() of the node kept in slot s: the closure endNode made
toString(s) ==
  /\ nodes[s] # Null
  /\ "toString" \in DOMAIN nodes[s]
  /\ LET r == CallToString(nodes[s].toString)
         again == res.op = "toString" /\ res.node = nodes[s]
     IN  res' = Spread(Pre, [op |-> "toString", node |-> nodes[s],
                             again |-> again,
                             before |-> IF again THEN <<res.outcome, res.ret>>
                                        ELSE <<>>,
                             outcome |-> r.outcome, ret |-> r.value])
  /\ UNCHANGED <<tokens, pos, token, nodes>>

\* Context.makeNode(node, syntax)
makeNode(node, syntax) ==
  /\ res' = Spread(Pre, [op |-> "makeNode", node |-> node, Type |-> syntax,
                         outcome |-> "return",
                         ret |-> MakeNodeOf(token, pos, node, syntax)])
  /\ UNCHANGED <<tokens, pos, token, nodes>>

\* the calls of the cursor, the matcher and the diagnostics
NextCursor ==
  \/ next
  \/ \E value \in ValueArgs, type \in TypeArgs : eat(value, type)
  \/ \E value \in ValueArgs, type \in TypeArgs : expect(value, type)
  \/ \E error \in { Undef, "detail" } : syntaxError("Oops", error)
  \/ \E value \in ValueArgs \ { Null } : unexpectedValue(value)
  \/ \E type \in TypeArgs : unexpected(type)
  \/ unknown([value |-> "@"])
  \/ unsupported

\* the calls of the node builder, with the cursor moving in between
NextNodes ==
  \/ next
  \/ \E seed \in SeedArgs : startNode("A", seed)
  \/ \E Type \in NodeTypes, d \in { "A", "none" } : endNode("A", Type, d)
  \/ \E node \in Partials, syntax \in NodeTypes : makeNode(node, syntax)

Next == NextCursor \/ NextNodes

\* every call of the context, in any order
Spec == Init /\ [][Next]_vars
\* a sub-parser that matches tokens and builds diagnostics
SpecCursor == Init /\ [][NextCursor]_vars
\* a sub-parser that builds nodes
SpecNodes == Init /\ [][NextNodes]_vars

\* the context of a parse of `let x = 5;`, on its first token
InitScenario ==
  /\ tokens = ScenarioStream
  /\ pos = 1
  /\ token = StreamNext(0)
  /\ nodes = [s \in Slots |-> Null]
  /\ res = [op |-> "new"]

\* the calls of a parser of declarations on `let x = 5;`
NextScenario ==
  \/ next
  \/ expect(Array(<<"let">>), Undef)
  \/ \E type \in { "Identifier", "Punctuator" } : eat(Null, type)
  \/ makeNode([value |-> "x"], "Identifier")
  \/ startNode("A", Omitted)
  \/ \E d \in { "A", "none" } : endNode("A", "Identifier", d)

\* the parse of `let x = 5;`
SpecScenario == InitScenario /\ [][NextScenario]_vars

\* a sub-parser that builds a node and reads its source text while the
\* cursor moves on
NextText ==
  \/ next
  \/ eat(Null, "Identifier")
  \/ expect(Array(<<"let">>), Undef)
  \/ startNode("A", Omitted)
  \/ \E Type \in NodeTypes : endNode("A", Type, "A")
  \/ toString("A")

SpecText == Init /\ [][NextText]_vars

\* a sub-parser that closes the node it opened twice: the first result is
\* kept in B, and once B is taken no other node is opened
NextTwice ==
  \/ next
  \/ nodes["B"] = Null /\ startNode("A", Omitted)
  \/ \E Type \in NodeTypes, d \in { "B", "none" } :
       /\ nodes["A"] # Null
       /\ d = "B" => nodes["B"] = Null
       /\ endNode("A", Type, d)

SpecTwice == Init /\ [][NextTwice]_vars

\* an outer sub-parser that opens A and calls an inner one, which opens
\* and closes B and returns; then the outer one closes A
NextNested ==
  \/ next
  \/ \E value \in { Array(<<"let", "x">>) } : eat(value, Undef)
  \/ nodes["A"] = Null /\ nodes["B"] = Null /\ startNode("A", Omitted)
  \/ /\ nodes["A"] # Null /\ Len(nodes["A"].range) = 1
     /\ nodes["B"] = Null
     /\ startNode("B", Omitted)
  \/ \E Type \in NodeTypes :
       /\ nodes["B"] # Null /\ Len(nodes["B"].range) = 1
       /\ endNode("B", Type, "B")
  \/ \E Type \in NodeTypes :
       /\ nodes["A"] # Null /\ Len(nodes["A"].range) = 1
       /\ nodes["B"] # Null /\ Len(nodes["B"].range) = 2
       /\ endNode("A", Type, "A")

SpecNested == Init /\ [][NextNested]_vars

\* one sub-parser using every method of the context, with one choice of
\* arguments per matching mode and per kind of node
NextAll ==
  \/ next
  \/ \E value \in { Null, Array(<<"let">>) } : eat(value, "Identifier")
  \/ \E value \in { Null, Array(<<"let">>) } : expect(value, "Identifier")
  \/ syntaxError("Oops", Undef)
  \/ unexpectedValue(Array(<<"let">>))
  \/ unexpected("Identifier")
  \/ unknown([value |-> "@"])
  \/ unsupported
  \/ startNode("A", Omitted)
  \/ \E d \in { "A", "none" } : endNode("A", "Block", d)
  \/ \E node \in { EmptyObject, [value |-> "y", Type |-> "Custom"] } :
       makeNode(node, "Block")

\* every method of the context, called in any order
SpecAll == Init /\ [][NextAll]_vars

(* ------------------------------- claims ------------------------------- *)

\* the set of the strings of an array
Members(arr) == { arr.array[i] : i \in 1..Len(arr.array) }

\* the last call advanced the cursor by exactly one stream token
Advanced == pos = res.prePos + 1 /\ token = StreamNext(res.prePos)
\* the last call left the cursor where it was
Unmoved == pos = res.prePos /\ token = res.preToken

\* the last call was eat / expect and the token current before it matches
\* the value set (when one was given) or else the type
PreMatches ==
  /\ res.preToken # Null
  /\ IF res.value # Null THEN res.preToken.value \in Members(res.value)
     ELSE res.preToken.type = res.type

\* C1: eat(V, anyType) with a non-null value set V advances the cursor by
\* exactly one stream token and returns true iff the value of the token
\* current before the call is a member of V; otherwise it returns false and
\* the cursor does not move (also for an empty V and without a current token).
C1_EatValueSet ==
  (res.op = "eat" /\ res.value # Null) =>
    LET member == res.preToken # Null /\ res.preToken.value \in Members(res.value)
    IN  /\ res.ret = member
        /\ member => Advanced
        /\ ~member => Unmoved

\* an eat with a value set and another type than the token's that advanced
C1_Witness ==
  /\ res.op = "eat" /\ res.value = Array(<<"let">>)
  /\ res.preToken # Null
  /\ res.preToken.type = "Keyword" /\ res.type = "Identifier"
  /\ res.ret = TRUE /\ pos = res.prePos + 1

\* C2: eat(null, type) advances the cursor by exactly one token and returns
\* true iff the type of the token current before the call equals type;
\* otherwise it returns false and the cursor does not move.
C2_EatType ==
  (res.op = "eat" /\ res.value = Null) =>
    LET same == res.preToken # Null /\ res.preToken.type = res.type
    IN  /\ res.ret = same
        /\ same => Advanced
        /\ ~same => Unmoved

\* an eat(null, "Keyword") that consumed a keyword
C2_Witness ==
  /\ res.op = "eat" /\ res.value = Null /\ res.type = "Keyword"
  /\ res.ret = TRUE /\ res.preToken.value = "let" /\ pos = 2

\* C3: a successful expect(value, type) returns the token that was current
\* before the call, and afterwards the current token is the stream's next
\* token, as after a successful eat.
C3_ExpectReturnsPrevious ==
  (res.op = "expect" /\ res.outcome = "return") =>
    /\ res.ret = res.preToken
    /\ res.ret # Null
    /\ Advanced

\* an expect that consumed a token which another token follows
C3_Witness ==
  /\ res.op = "expect" /\ res.outcome = "return"
  /\ res.prePos = 1 /\ Len(tokens) = 2 /\ token = tokens[2]

\* String(V) / String(type) of the arguments the calls are made with
ExpectedText(v) ==
  IF v = Array(<<>>) THEN ""
  ELSE IF v = Array(<<"let">>) THEN "let"
  ELSE "let,x"

\* C4: with a current token, an expect(value, type) that does not match
\* throws a syntax error: UnexpectedValue, built from the message
\* "Expected: <value set>" and the detail "Unexpected value", when a value
\* set was given, else UnexpectedToken, built from "Expected: <type>" and
\* "Unexpected token <current token's type>".
C4_ExpectMismatchError ==
  (res.op = "expect" /\ res.preToken # Null /\ ~PreMatches) =>
    /\ res.outcome = "throw"
    /\ res.ret.name = "SyntaxError"
    /\ res.ret.message.marker = res.preToken
    /\ IF res.value # Null
       THEN /\ res.ret.message.msg = "Expected: " \o ExpectedText(res.value)
            /\ res.ret.message.error = "Unexpected value"
       ELSE /\ res.ret.message.msg = "Expected: " \o res.type
            /\ res.ret.message.error = "Unexpected token " \o res.preToken.type

\* expect(["let"]) on the token + of type Operator threw "Expected: let"
C4_Witness ==
  /\ res.op = "expect" /\ res.value = Array(<<"let">>)
  /\ res.preToken # Null /\ res.preToken.value = "+"
  /\ res.preToken.type = "Operator"
  /\ res.outcome = "throw" /\ res.ret.message.msg = "Expected: let"

\* C5: expect is eat followed by a case split, in every state: where eat
\* returns true it returns the previous token, and where eat returns false
\* (also without a current token) it throws the unexpected-value /
\* unexpected-token syntax error and ends in no other way.
C5_ExpectIsEatThenSplit ==
  res.op = "expect" =>
    IF PreMatches
    THEN res.outcome = "return" /\ res.ret = res.preToken /\ Advanced
    ELSE res.outcome = "throw" /\ res.ret.name = "SyntaxError" /\ Unmoved

\* C6: eat never throws: in every state it returns true or false; without
\* a current token it returns false without calling the stream, and when
\* it returns false neither the current token nor the stream position
\* has changed.
C6_EatNeverRaises ==
  res.op = "eat" =>
    /\ res.outcome = "return"
    /\ res.ret \in BOOLEAN
    /\ res.preToken = Null => (res.ret = FALSE /\ pos = res.prePos)
    /\ res.ret = FALSE => Unmoved

\* an eat without a current token on a stream that still has tokens
C6_Witness ==
  /\ res.op = "eat" /\ res.preToken = Null /\ res.prePos = 0
  /\ Len(tokens) > 0 /\ res.ret = FALSE

\* source positions in the order of the text; an undefined position is
\* ordered with none
PosLeq(a, b) ==
  /\ a # Undefined
  /\ b # Undefined
  /\ \/ a.line < b.line
     \/ a.line = b.line /\ a.col <= b.col

\* the end position a node closed by the last call gets: that of the token
\* current at the call, else of the last token the stream produced, else
\* undefined
EndPosition ==
  IF res.preToken # Null THEN res.preToken.start
  ELSE IF res.prePos >= 1 /\ Len(tokens) >= 1
       THEN tokens[IF res.prePos <= Len(tokens) THEN res.prePos ELSE Len(tokens)].start
       ELSE Undefined

\* C7 as claimed: startNode followed immediately by endNode(node, T) gives
\* a node whose range start and end are equal and whose Type is T, however
\* the node was opened (seed omitted or a token given) and whatever the
\* cursor is (a current token or none).
C7_ImmediateCloseAlwaysEmpty ==
  (res.op = "endNode" /\ res.fresh /\ res.seed # EmptyObject) =>
    /\ Len(res.ret.range) = 2
    /\ res.ret.range[1] = res.ret.range[2]
    /\ res.ret.Type = res.Type

\* C7 as amended: startNode followed immediately by endNode(node, T) gives
\* a node of Type T with a range of two entries; the two are equal when
\* the seed was omitted and a current token exists.
C7_ImmediateCloseOnCurrentToken ==
  (res.op = "endNode" /\ res.fresh) =>
    /\ Len(res.ret.range) = 2
    /\ res.ret.Type = res.Type
    /\ (res.seed = Omitted /\ res.preToken # Null) =>
         /\ res.ret.range[1] = res.ret.range[2]
         /\ res.ret.range[1] = res.preToken.start

\* startNode() and at once endNode on the second token of a stream
C7_Witness ==
  /\ res.op = "endNode" /\ res.fresh /\ res.seed = Omitted
  /\ res.prePos = 2 /\ res.preToken # Null
  /\ res.ret.range = << tokens[2].start, tokens[2].start >>

\* the start position of the token current at the last call
StartPosition == IF res.preToken # Null THEN res.preToken.start ELSE Undefined

\* C8 as claimed: the node makeNode(P, T) returns has every key of P with
\* P's value except Type and range: Type is T and range is the computed
\* span [start of the current token, end position], whatever P holds.
C8_PartialKeysKeptSpanComputed ==
  res.op = "makeNode" =>
    /\ \A k \in (DOMAIN res.node) \ { "Type", "range" } :
         k \in DOMAIN res.ret /\ res.ret[k] = res.node[k]
    /\ res.ret.Type = res.Type
    /\ res.ret.range = << StartPosition, EndPosition >>

\* C8 as amended: the node makeNode(P, T) returns has every key of P with
\* P's value except Type, range and toString: Type is T, toString is the
\* fresh accessor, and range is P's range (the one-entry range of the
\* current token's start when P has none) with the end position appended,
\* so it is the computed span whenever P has no range.
C8_PartialKeysKept ==
  res.op = "makeNode" =>
    /\ \A k \in (DOMAIN res.node) \ { "Type", "range", "toString" } :
         k \in DOMAIN res.ret /\ res.ret[k] = res.node[k]
    /\ res.ret.Type = res.Type
    /\ res.ret.toString = [closure |-> "toString", range |-> res.ret.range]
    /\ res.ret.range =
         IF "range" \in DOMAIN res.node
         THEN Append(res.node.range, EndPosition)
         ELSE << StartPosition, EndPosition >>

\* makeNode of a partial with a value and a Type of its own, on a token
C8_Witness ==
  /\ res.op = "makeNode" /\ res.preToken # Null
  /\ res.node = [value |-> "y", Type |-> "Custom"]
  /\ res.ret.value = "y" /\ res.ret.Type = "Block"

\* C9 as claimed: every node startNode returns has a range of one entry,
\* every node endNode or makeNode returns (whatever node or partial it was
\* given, a closed node too) has a range of two entries, and the range
\* start, where both are positions, precedes or equals the range end.
C9_RangeOneThenTwo ==
  /\ res.op = "startNode" => Len(res.ret.range) = 1
  /\ res.op \in { "endNode", "makeNode" } =>
       /\ Len(res.ret.range) = 2
       /\ (res.ret.range[1] # Undefined /\ res.ret.range[2] # Undefined) =>
            PosLeq(res.ret.range[1], res.ret.range[2])

\* C9 as amended: every node startNode returns has a range of one entry;
\* endNode returns a range one entry longer than that of the node it was
\* given, so of two entries exactly when that node was open; makeNode
\* returns a range of two entries when the partial has no range; and the
\* first entry precedes or equals the last whenever it is the position of
\* a token the stream had produced when the node was closed.
C9_RangeGrowsByOne ==
  /\ res.op = "startNode" => Len(res.ret.range) = 1
  /\ res.op = "endNode" =>
       /\ Len(res.ret.range) = Len(res.base.range) + 1
       /\ (Len(res.base.range) = 1) <=> (Len(res.ret.range) = 2)
  /\ (res.op = "makeNode" /\ "range" \notin DOMAIN res.node) =>
       Len(res.ret.range) = 2
  /\ res.op \in { "endNode", "makeNode" } =>
       \A i \in 1..Len(tokens) :
         (i <= res.prePos /\ res.ret.range[1] = tokens[i].start) =>
           PosLeq(res.ret.range[1], res.ret.range[Len(res.ret.range)])

\* a node opened on the first token and closed on the second
C9_Witness ==
  /\ res.op = "endNode" /\ Len(tokens) >= 2 /\ res.prePos = 2
  /\ res.base.range = << tokens[1].start >>
  /\ res.ret.range = << tokens[1].start, tokens[2].start >>

\* the five diagnostic constructors
Diagnostics ==
  { "syntaxError", "unexpectedValue", "unexpected", "unknown", "unsupported" }

\* C10: the five diagnostic constructors return a syntax-error value and
\* never throw, in every state of the context, also without a current
\* token; expect is the only operation that throws a syntax error.
C10_DiagnosticsReturn ==
  /\ res.op \in Diagnostics =>
       res.outcome = "return" /\ res.ret.name = "SyntaxError"
  /\ (res.op # "new" /\ res.outcome = "throw" /\ res.ret.name = "SyntaxError") =>
       res.op = "expect"

\* C11 as claimed: once the stream has produced a token, the current token
\* is the token the stream produced last (stream.last()), and every call
\* of next, eat and expect either consumes exactly one stream token, which
\* becomes current, or leaves the cursor alone.
C11_CurrentIsStreamLast ==
  /\ pos >= 1 => token = StreamLast(pos)
  /\ res.op = "next" => Advanced
  /\ res.op \in { "eat", "expect" } => (Advanced \/ Unmoved)

\* C11 as amended: once the stream has produced a token, the current token
\* is the pos-th token of the stream (no token is skipped and none is
\* current twice), which is stream.last() as long as the input is not
\* exhausted; after the stream has run out there is no current token while
\* stream.last() is still the last token.  Every call of next consumes
\* exactly one stream token, every call of eat and expect one or none.
C11_Lookahead ==
  /\ (pos >= 1 /\ pos <= Len(tokens)) =>
       token = tokens[pos] /\ token = StreamLast(pos)
  /\ pos > Len(tokens) => token = Null
  /\ res.op = "next" => Advanced
  /\ res.op \in { "eat", "expect" } => (Advanced \/ Unmoved)
  /\ res.op \notin { "new", "next", "eat", "expect" } => Unmoved

\* the second token became current by an eat, after node and diagnostic
\* calls were made
C11_Witness ==
  /\ res.op = "eat" /\ res.ret = TRUE /\ pos = 2 /\ Len(tokens) = 2
  /\ token = tokens[2] /\ nodes["A"] # Null

\* the columns of the positions of a range
Cols(range) == [i \in 1..Len(range) |-> range[i].col]

\* C12: on the stream let, x, =, 5, ; of the line "let x = 5;" (columns
\* 0, 4, 6, 8, 9) with "let" current, expect(["let"]) returns the "let"
\* token and makes "x" current; makeNode({value: "x"}, "Identifier") opens
\* on "x" (start column 4); and a node opened on "x" and closed after one
\* call of next() has the range columns [4, 6], Type "Identifier", value
\* "x" and the source text "x ".
C12_LetScenario ==
  /\ tokens = ScenarioStream
  /\ Cols([i \in 1..5 |-> tokens[i].start]) = <<0, 4, 6, 8, 9>>
  /\ (res.op = "expect" /\ res.prePos = 1) =>
       /\ res.outcome = "return"
       /\ res.ret.value = "let" /\ res.ret = tokens[1]
       /\ token.value = "x" /\ token = tokens[2]
  /\ (res.op = "makeNode" /\ res.prePos = 2) =>
       /\ res.ret.range[1].col = 4
       /\ res.ret.value = "x" /\ res.ret.Type = "Identifier"
  /\ (res.op = "endNode" /\ res.prePos = 3 /\ res.base.Type = ""
        /\ res.base.range[1] = tokens[2].start) =>
       /\ Cols(res.ret.range) = <<4, 6>>
       /\ res.ret.Type = "Identifier"
       /\ res.ret.value = "x"
       /\ CallToString(res.ret.toString) = Return("x ")

\* a node opened on "x" was closed after one next() and spans "x "
C12_Witness ==
  /\ res.op = "endNode" /\ res.prePos = 3
  /\ res.base.Type = "" /\ res.base.value = "x"
  /\ Cols(res.ret.range) = <<4, 6>>

\* C13: a value set takes precedence over a type: when eat or expect is
\* called with a non-null value set V and a type, the token is consumed
\* iff its value is in V, whether or not its type equals the given type.
C13_ValueSetPrecedence ==
  (res.op \in { "eat", "expect" } /\ res.value # Null /\ res.type # Undef) =>
    LET member == res.preToken # Null /\ res.preToken.value \in Members(res.value)
    IN  /\ member => Advanced
        /\ ~member => Unmoved
        /\ res.op = "eat" => res.ret = member
        /\ res.op = "expect" => (res.outcome = "return") = member

\* expect(["let"], "Identifier") did not consume the identifier x
C13_Witness ==
  /\ res.op = "expect" /\ res.value = Array(<<"let">>) /\ res.type = "Identifier"
  /\ res.preToken # Null /\ res.preToken.type = "Identifier"
  /\ res.preToken.value = "x"
  /\ res.outcome = "throw" /\ token = res.preToken

\* C14: endNode takes the end position from the current token if there is
\* one, else from the token the stream produced last, else from an empty
\* position; it does not fail without a current token; it stamps the given
\* Type and carries over every field of the open node but a previous
\* source-text accessor.
C14_EndNodeEndPosition ==
  res.op = "endNode" =>
    /\ res.outcome = "return"
    /\ res.ret.range = Append(res.base.range, EndPosition)
    /\ res.ret.Type = res.Type
    /\ \A k \in (DOMAIN res.base) \ { "toString", "Type", "range" } :
         k \in DOMAIN res.ret /\ res.ret[k] = res.base[k]
    /\ DOMAIN res.ret = (DOMAIN res.base) \cup { "toString" }
    /\ res.ret.toString = [closure |-> "toString", range |-> res.ret.range]

\* endNode without a current token, after the stream has run out, took
\* the end position of the last token
C14_Witness ==
  /\ res.op = "endNode" /\ res.preToken = Null
  /\ Len(tokens) = 2 /\ res.prePos = 3
  /\ res.ret.range[Len(res.ret.range)] = tokens[2].start

\* C16: when expect fails, the current token and the stream position are
\* those of before the call.
C16_FailedExpectKeepsCursor ==
  (res.op = "expect" /\ res.outcome = "throw") => Unmoved

\* expect failed on a token that another token follows
C16_Witness ==
  /\ res.op = "expect" /\ res.outcome = "throw"
  /\ res.preToken # Null /\ res.prePos = 1 /\ Len(tokens) = 2
  /\ token = tokens[1]

\* the methods of the node builder
NodeBuilders == { "startNode", "endNode", "makeNode" }

\* C17: startNode, endNode, makeNode and the five diagnostic constructors
\* leave the cursor unchanged; only next, a successful eat and a
\* successful expect advance the stream.
C17_OnlyMatcherAdvances ==
  /\ res.op \in NodeBuilders \cup Diagnostics => Unmoved
  /\ (res.op # "new" /\ ~Unmoved) =>
       \/ res.op = "next"
       \/ res.op = "eat" /\ res.ret = TRUE
       \/ res.op = "expect" /\ res.outcome = "return"

\* unsupported() was called on the first of two tokens and the cursor
\* stayed
C17_Witness ==
  /\ res.op = "unsupported" /\ res.outcome = "return"
  /\ Len(tokens) = 2 /\ pos = 1 /\ token = tokens[1]

\* the text between the first and the last position of a range, where
\* both are positions of the one source line
TextOf(range) ==
  LET start == range[1]
      end == range[Len(range)]
  IN  IF start.col >= end.col THEN ""
      ELSE SubSeq(start.sourceLine, start.col + 1, end.col)

Payload(node) == [k \in (DOMAIN node) \ { "Type", "range", "toString" } |-> node[k]]

\* C18: endNode does not modify the open node it is given: after
\* endNode(base, T) the range and the Type of base are what they were, so
\* closing the same open node twice at different cursor positions gives
\* two finalized nodes that share the start position and differ only in
\* end position and Type.
C18_EndNodeKeepsBase ==
  res.op = "endNode" =>
    /\ nodes["A"] = res.base
    /\ res.base.Type = "" /\ Len(res.base.range) = 1
    /\ (nodes["B"] # Null /\ res.to = "none") =>
         /\ Len(nodes["B"].range) = 2 /\ Len(res.ret.range) = 2
         /\ nodes["B"].range[1] = res.base.range[1]
         /\ res.ret.range[1] = res.base.range[1]
         /\ Payload(nodes["B"]) = Payload(res.ret)
         /\ DOMAIN nodes["B"] = DOMAIN res.ret

\* the node opened on the first token was closed as a Block there and as
\* an Identifier on the second token
C18_Witness ==
  /\ res.op = "endNode" /\ res.to = "none" /\ Len(tokens) = 2
  /\ nodes["B"] # Null
  /\ nodes["B"].range = << tokens[1].start, tokens[1].start >>
  /\ nodes["B"].Type = "Block"
  /\ res.ret.range = << tokens[1].start, tokens[2].start >>
  /\ res.ret.Type = "Identifier"

\* every entry of a range is a position
Positioned(range) == \A i \in 1..Len(range) : range[i] # Undefined

====
